---- MODULE Spec2Model ----
(***************************************************************************)
(* Chat front end of openaidy: the three root components (App of App.tsx,  *)
(* the streaming App, and AppContent), ChatInput.handleSubmit, and the     *)
(* calls of apiService (sendChatCompletion, sendChatCompletionStream,      *)
(* analyzeReviews).                                                        *)
(*                                                                         *)
(* Spec is the application driven through its input; SegSpec is one        *)
(* streaming turn whose body arrives cut at any byte; ReviewSpec is the    *)
(* review analysis started by handleSendMessage with input values.         *)
(* AgentSpec is AppContent mounted with any agent selected; CleanupSpec    *)
(* is ReviewSpec with a caller that may invoke the cleanup function.       *)
(*                                                                         *)
(* Text is a sequence of tokens, so that concatenation is \o.  The bytes   *)
(* of a streamed response are a sequence of symbols; the client's          *)
(* split('\n\n') / startsWith / replace / JSON.parse are computed on it.   *)
(***************************************************************************)
EXTENDS Integers, Sequences, FiniteSets, TLC

VARIABLES
    app,               \* which root component is mounted
    messages,          \* useState<ChatMessage[]>
    isLoading,         \* useState(false)
    isProcessing,      \* useState(false), AppContent only
    streamingMessage,  \* useState<ChatMessage | null>
    selectedAgent,     \* AgentProvider's useState<AgentType>
    now,               \* Date.now()
    call,              \* the apiService call of the turn in flight
    inflight,          \* HTTP requests issued and not yet settled
    requests,          \* fetch() calls made so far
    inputValues,       \* ChatInput's useState: the values of the agent's fields
    log,               \* callbacks the current turn's call has invoked, in order
    wire,              \* data blocks the server has written in the current turn
    outcome,           \* how the current turn's call settled, and on what input
    turnStart,         \* Len(messages) when the current turn was submitted
    turns,             \* submissions accepted so far
    budget             \* how far this run is explored: turns, blocks, clock

vars == <<app, messages, isLoading, isProcessing, streamingMessage,
          selectedAgent, now, call, inflight, requests, log, wire, outcome,
          turnStart, turns, budget,
                   inputValues>>

-----------------------------------------------------------------------------
(* Bounds of the model *)

\* user submissions per run
MaxTurns == 2
\* data blocks one reader.read() may carry
MaxPerRead == 2
\* data blocks the server has written, per streamed response
MaxBlocks == 3
\* milliseconds the clock may advance
MaxClock == 1

\* A run is either one turn with a long stream and a running clock, or a
\* conversation of several turns with one-block streams.
Budgets ==
    {[turns |-> 1, blocks |-> MaxBlocks, clock |-> MaxClock],
     [turns |-> MaxTurns, blocks |-> 1, clock |-> 0]}

-----------------------------------------------------------------------------
(* Values *)

Null == [null |-> TRUE]

\* a JS value that is `undefined`, where a text is expected
Undefined == <<"<undefined>">>

\* the n-th piece of the reply the backend streams
DeltaAt(n) == IF n = 1 THEN "Hi" ELSE IF n = 2 THEN " there" ELSE "!"

\* what the user may have typed into the main input when submitting
StoreUrl == <<"https://chromewebstore.google.com/detail/abc">>
RawInputs == {<<" ">>, <<"Hello">>, StoreUrl \o <<" ">>}

\* `content` values of a non-streaming response
ReplyTexts == {<<"Hi">>}

\* messages of rejected fetch() / read() promises
NetErrors == {<<"Failed to fetch">>}

\* `detail` values of a non-ok response
Details == {<<"Rate limited">>}

\* `error` values of an explicit error payload in the stream
StreamErrors == {<<"Provider failed">>}

\* the SyntaxError message of a failed response.json()
JsonSyntaxError == <<"Unexpected token < in JSON">>

\* `role` values of a non-streaming response (ChatCompletionResponse.role: string)
ResponseRoles == {"assistant", "system", "user"}

DefaultCompletionError == <<"Failed to get response from LLM">>
DefaultStreamError == <<"Failed to get streaming response from LLM">>
NoReaderError == <<"Failed to create stream reader">>
NoResponseError == <<"No response received from streaming API">>
DefaultChatError == <<"Error processing your request">>
ProvideUrlText == <<"Please provide a valid URL to analyze reviews.">>

Temperature == <<"0.7">>

-----------------------------------------------------------------------------
(* The wire: symbols of the text/event-stream body *)

Sym(c) == [ch |-> c]
\* 'data: ' is the two symbols d a; '\n' is n; x is any other character
MarkD == Sym("d")
MarkA == Sym("a")
NL == Sym("n")
LB == Sym("{")
RB == Sym("}")
Junk == Sym("x")
\* the members of a JSON object, between its braces
Obj(v) == [ch |-> "obj", val |-> v]

Marker == <<MarkD, MarkA>>

JSONstringify(v) == <<LB, Obj(v), RB>>

IsSpace(s) == s = NL

RECURSIVE TrimLeft(_)
TrimLeft(s) ==
    IF s # <<>> /\ IsSpace(Head(s)) THEN TrimLeft(Tail(s)) ELSE s

RECURSIVE TrimRight(_)
TrimRight(s) ==
    IF s # <<>> /\ IsSpace(s[Len(s)]) THEN TrimRight(SubSeq(s, 1, Len(s) - 1)) ELSE s

\* JSON.parse: [ok |-> TRUE, val |-> v] or [ok |-> FALSE] (it throws)
JSONparse(s) ==
    LET t == TrimRight(TrimLeft(s))
    IN IF Len(t) = 3 /\ t[1] = LB /\ t[3] = RB /\ t[2].ch = "obj"
       THEN [ok |-> TRUE, val |-> t[2].val]
       ELSE [ok |-> FALSE]

\* index of the first '\n\n' in s at or after i, 0 if none
RECURSIVE FindSep(_, _)
FindSep(s, i) ==
    IF i + 1 > Len(s) THEN 0
    ELSE IF s[i] = NL /\ s[i + 1] = NL THEN i
    ELSE FindSep(s, i + 1)

\* chunk.split('\n\n')
RECURSIVE Split(_)
Split(s) ==
    LET i == FindSep(s, 1)
    IN IF i = 0 THEN <<s>>
       ELSE <<SubSeq(s, 1, i - 1)>> \o Split(SubSeq(s, i + 2, Len(s)))

\* msg.startsWith('data: ')
StartsWithData(m) == Len(m) >= 2 /\ m[1] = MarkD /\ m[2] = MarkA

\* msg.replace('data: ', ''), applied to a msg that starts with it
StripData(m) == SubSeq(m, 3, Len(m))

RECURSIVE SelectSeqMap(_)
SelectSeqMap(ps) ==
    IF ps = <<>> THEN <<>>
    ELSE IF StartsWithData(Head(ps))
         THEN <<StripData(Head(ps))>> \o SelectSeqMap(Tail(ps))
         ELSE SelectSeqMap(Tail(ps))

\* the SSE messages of one decoded read: split, filter, map
SseMessages(chunk) == SelectSeqMap(Split(chunk))

-----------------------------------------------------------------------------
(* The backend's stream, as the spec describes it: blocks `data: <json>\n\n` *)

\* the cumulative content of the chunks written so far
RECURSIVE Cumulative(_)
Cumulative(w) ==
    IF w = <<>> THEN <<>>
    ELSE IF w[Len(w)].kind = "chunk" THEN w[Len(w)].content
    ELSE Cumulative(SubSeq(w, 1, Len(w) - 1))

ChunkBlock(content, delta, finished) ==
    [kind |-> "chunk", content |-> content, content_delta |-> delta,
     finished |-> finished, error |-> <<>>]

ErrorBlock(e) ==
    [kind |-> "error", content |-> <<>>, content_delta |-> <<>>,
     finished |-> FALSE, error |-> e]

\* `data: ` followed by text that is not JSON
MalformedBlock ==
    [kind |-> "malformed", content |-> <<>>, content_delta |-> <<>>,
     finished |-> FALSE, error |-> <<>>]

\* a block that does not begin with `data: ` (an SSE comment line)
CommentBlock ==
    [kind |-> "comment", content |-> <<>>, content_delta |-> <<>>,
     finished |-> FALSE, error |-> <<>>]

\* the blocks the server can write next, after having written w
NextBlocks(w) ==
    {ChunkBlock(Cumulative(w) \o <<DeltaAt(Len(Cumulative(w)) + 1)>>,
                <<DeltaAt(Len(Cumulative(w)) + 1)>>, f) : f \in BOOLEAN}
    \cup {ErrorBlock(e) : e \in StreamErrors}
    \cup {MalformedBlock, CommentBlock}

\* the JSON object of a block
Payload(b) ==
    IF b.kind = "chunk"
    THEN [content |-> b.content, content_delta |-> b.content_delta,
          finished |-> b.finished]
    ELSE [error |-> b.error]

\* the bytes of a block
Encode(b) ==
    CASE b.kind \in {"chunk", "error"} ->
            Marker \o JSONstringify(Payload(b)) \o <<NL, NL>>
      [] b.kind = "malformed" -> Marker \o <<Junk>> \o <<NL, NL>>
      [] OTHER -> <<Junk>> \o <<NL, NL>>

RECURSIVE EncodeAll(_)
EncodeAll(bs) ==
    IF bs = <<>> THEN <<>> ELSE Encode(Head(bs)) \o EncodeAll(Tail(bs))

\* the sequences of 1..MaxPerRead blocks the server can write after w
RECURSIVE BlockRuns(_, _)
BlockRuns(w, n) ==
    IF n = 0 THEN {<<>>}
    ELSE {<<>>} \cup
         UNION {{<<b>> \o r : r \in BlockRuns(Append(w, b), n - 1)} : b \in NextBlocks(w)}

-----------------------------------------------------------------------------
(* HTTP responses of the two chat endpoints *)

\* bodies of a non-ok response: JSON with `detail`, JSON without it, not JSON
ErrorBodies ==
    {JSONstringify([detail |-> d]) : d \in Details}
    \cup {JSONstringify([status |-> <<"error">>]), <<Junk>>}

\* bodies of an ok response of /api/chat/completions
CompletionBodies ==
    {JSONstringify([role |-> r, content |-> c, model |-> <<"m">>]) :
        r \in ResponseRoles, c \in ReplyTexts}
    \cup {<<Junk>>}

-----------------------------------------------------------------------------
(* JS values *)

\* v.f, `undefined` when v has no such property
Get(v, f) == IF f \in DOMAIN v THEN v[f] ELSE Undefined

\* a text in a boolean context
Truthy(t) == t # Undefined /\ t # <<>>

\* IsFinished never true
IsFinished_Never(data) == FALSE

\* data.finished in a boolean context
IsFinished(data) == "finished" \in DOMAIN data /\ data.finished

\* value.trim()
RECURSIVE Trim(_)
Trim(t) ==
    IF t # <<>> /\ Head(t) = " " THEN Trim(Tail(t))
    ELSE IF t # <<>> /\ t[Len(t)] = " " THEN Trim(SubSeq(t, 1, Len(t) - 1))
    ELSE t

\* Date.now().toString(), `streaming-${Date.now()}`, 'loading'
Id(prefix, t) == [prefix |-> prefix, t |-> t]

ChatMessage(role, content, id) == [role |-> role, content |-> content, id |-> id]

\* offset: how many symbols of the response body the reader has handed out
NoCall ==
    [kind |-> "none", pc |-> "none", body |-> Null, lastChunk |-> Null, offset |-> 0]

Outcome(how, input) == [how |-> how, input |-> input]
NoOutcome == Outcome("none", <<>>)

\* entries of log
ChunkEvent(content, delta) == [cb |-> "onChunk", content |-> content, delta |-> delta]
MessageEvent(cb, m) == [cb |-> cb, message |-> m]
ErrorEvent(cb, text) == [cb |-> cb, text |-> text]

-----------------------------------------------------------------------------
(* apiService: the request body *)

\* FormattedMessages leaving the system messages out
RECURSIVE FormattedMessages_DropSystem(_)
FormattedMessages_DropSystem(ms) ==
    IF ms = <<>> THEN <<>>
    ELSE IF Head(ms).role = "system" THEN FormattedMessages_DropSystem(Tail(ms))
    ELSE <<[role |-> Head(ms).role, content |-> Head(ms).content]>>
         \o FormattedMessages_DropSystem(Tail(ms))

RECURSIVE FormattedMessages(_)
FormattedMessages(ms) ==
    IF ms = <<>> THEN <<>>
    ELSE <<[role |-> Head(ms).role, content |-> Head(ms).content]>>
         \o FormattedMessages(Tail(ms))

RequestBody(ms) ==
    [messages |-> FormattedMessages(ms), temperature |-> Temperature]

\* NotOkMessage ignoring `detail`
NotOkMessage_NoDetail(body, fallback) ==
    IF ~JSONparse(body).ok THEN JsonSyntaxError ELSE fallback

\* errorData.detail || fallback, after `await response.json()`;
\* a body that is not JSON makes response.json() reject instead
NotOkMessage(body, fallback) ==
    LET p == JSONparse(body)
    IN IF ~p.ok THEN JsonSyntaxError
       ELSE IF Truthy(Get(p.val, "detail")) THEN Get(p.val, "detail")
       ELSE fallback

-----------------------------------------------------------------------------
(* The streaming App and AppContent: the three callbacks handed to         *)
(* sendChatCompletionStream.  ui is the React state they update.           *)

CurrentUi ==
    [messages |-> messages, isLoading |-> isLoading,
     streamingMessage |-> streamingMessage, log |-> log]

\* OnChunk showing the delta instead of the cumulative content
OnChunk_Delta(ui, content, delta) ==
    [ui EXCEPT
        !.streamingMessage = IF @ = Null THEN Null ELSE [@ EXCEPT !.content = delta],
        !.log = Append(@, ChunkEvent(content, delta))]

OnChunk(ui, content, delta) ==
    [ui EXCEPT
        !.streamingMessage = IF @ = Null THEN Null ELSE [@ EXCEPT !.content = content],
        !.log = Append(@, ChunkEvent(content, delta))]

\* OnComplete overwriting the last message of the list
OnComplete_ReplaceLast(ui, assistantMessage) ==
    [ui EXCEPT
        !.streamingMessage = Null,
        !.messages = [@ EXCEPT ![Len(@)] = assistantMessage],
        !.isLoading = FALSE,
        !.log = Append(@, MessageEvent("onComplete", assistantMessage))]

OnComplete(ui, assistantMessage) ==
    [ui EXCEPT
        !.streamingMessage = Null,
        !.messages = Append(@, assistantMessage),
        !.isLoading = FALSE,
        !.log = Append(@, MessageEvent("onComplete", assistantMessage))]

\* OnError without setStreamingMessage(null)
OnError_KeepStreaming(ui, text, t) ==
    [ui EXCEPT
        !.messages = Append(@, ChatMessage("system",
                                IF Truthy(text) THEN text ELSE DefaultChatError,
                                Id("", t + 1))),
        !.isLoading = FALSE,
        !.log = Append(@, ErrorEvent("onError", text))]

\* OnError without setIsLoading(false)
OnError_KeepLoading(ui, text, t) ==
    [ui EXCEPT
        !.streamingMessage = Null,
        !.messages = Append(@, ChatMessage("system",
                                IF Truthy(text) THEN text ELSE DefaultChatError,
                                Id("", t + 1))),
        !.log = Append(@, ErrorEvent("onError", text))]

OnError(ui, text, t) ==
    [ui EXCEPT
        !.streamingMessage = Null,
        !.messages = Append(@, ChatMessage("system",
                                IF Truthy(text) THEN text ELSE DefaultChatError,
                                Id("", t + 1))),
        !.isLoading = FALSE,
        !.log = Append(@, ErrorEvent("onError", text))]

-----------------------------------------------------------------------------
(* sendChatCompletionStream: the body of the read loop *)

\* The inner try of a message's catch block: what it throws, Null if nothing.
\* It parses the message again and throws an Error when the payload has `error`.
InnerTry(msg) ==
    LET q == JSONparse(msg)
    IN IF ~q.ok THEN [message |-> JsonSyntaxError]
       ELSE IF Truthy(Get(q.val, "error")) THEN [message |-> Get(q.val, "error")]
       ELSE Null

\* CatchBlock with the inner catch rethrowing
CatchBlock_Rethrow(msg) == InnerTry(msg)

\* The catch block of a message: what leaves it, Null if nothing.  Whatever
\* the inner try throws, its own catch (parseError) swallows.
CatchBlock(msg) ==
    IF InnerTry(msg) # Null THEN Null ELSE Null

\* FinishedMessage built from the delta instead of the cumulative content
FinishedMessage_Delta(data, t) ==
    ChatMessage("assistant", Get(data, "content_delta"), Id("", t))

\* the message onComplete gets for the chunk with finished = true
FinishedMessage(data, t) ==
    ChatMessage("assistant", Get(data, "content"), Id("", t))

\* the message onComplete gets after the loop
LastChunkMessage(lastChunk, t) ==
    ChatMessage("assistant", Get(lastChunk, "content"), Id("", t))

\* for (const msg of messages) { ... }, from state st at time t;
\* st.returned is set when the function returns from inside the loop
RECURSIVE ProcessMessages(_, _, _)
ProcessMessages(msgs, st, t) ==
    IF msgs = <<>> \/ st.returned \/ st.thrown # Null THEN st
    ELSE
        LET msg == Head(msgs)
            p == JSONparse(msg)
        IN IF p.ok
           THEN LET data == p.val
                    ui1 == OnChunk(st.ui, Get(data, "content"), Get(data, "content_delta"))
                IN IF IsFinished(data)
                   THEN [st EXCEPT
                           !.ui = OnComplete(ui1, FinishedMessage(data, t)),
                           !.lastChunk = data,
                           !.returned = TRUE]
                   ELSE ProcessMessages(Tail(msgs),
                           [st EXCEPT !.ui = ui1, !.lastChunk = data], t)
           ELSE IF CatchBlock(msg) # Null
                THEN [st EXCEPT !.thrown = CatchBlock(msg)]
                ELSE ProcessMessages(Tail(msgs), st, t)

\* one iteration of while (true) with a read that carries bytes
ProcessRead(bytes, ui, lastChunk, t) ==
    ProcessMessages(SseMessages(bytes),
        [ui |-> ui, lastChunk |-> lastChunk, returned |-> FALSE, thrown |-> Null], t)

\* AfterLoop completing with the last chunk and then throwing as well
AfterLoop_Both(ui, lastChunk, t) ==
    IF lastChunk = Null
    THEN OnError(ui, NoResponseError, t)
    ELSE OnError(OnComplete(ui, LastChunkMessage(lastChunk, t)), NoResponseError, t)

\* AfterLoop without the check of lastChunk
AfterLoop_NoCheck(ui, lastChunk, t) ==
    OnComplete(ui, LastChunkMessage(lastChunk, t))

\* after the loop: throw when there is no lastChunk, else complete with it
AfterLoop(ui, lastChunk, t) ==
    IF lastChunk = Null
    THEN OnError(ui, NoResponseError, t)
    ELSE OnComplete(ui, LastChunkMessage(lastChunk, t))

-----------------------------------------------------------------------------
(* handleSendMessage of the three root components, up to its first await *)

Commit(ui) ==
    /\ messages' = ui.messages
    /\ isLoading' = ui.isLoading
    /\ streamingMessage' = ui.streamingMessage
    /\ log' = ui.log

NewCall(kind, allMessages) ==
    [kind |-> kind, pc |-> "fetch", body |-> RequestBody(allMessages),
     lastChunk |-> Null, offset |-> 0]

\* App of App.tsx: the non-streaming call
AppHandleSendMessage(content) ==
    LET userMessage == ChatMessage("user", content, Id("", now))
    IN /\ messages' = Append(messages, userMessage)
       /\ isLoading' = TRUE
       /\ call' = NewCall("completion", Append(messages, userMessage))
       /\ inflight' = inflight + 1
       /\ requests' = requests + 1
       /\ UNCHANGED <<streamingMessage, isProcessing>>

\* the streaming branch, shared by the streaming App and AppContent
StartStreaming(content) ==
    LET userMessage == ChatMessage("user", content, Id("", now))
    IN /\ messages' = Append(messages, userMessage)
       /\ isLoading' = TRUE
       /\ streamingMessage' = ChatMessage("assistant", <<>>, Id("streaming-", now))
       /\ call' = NewCall("stream", Append(messages, userMessage))
       /\ inflight' = inflight + 1
       /\ requests' = requests + 1
       /\ UNCHANGED isProcessing

\* the streaming App (useStreaming = true)
StreamAppHandleSendMessage(content) == StartStreaming(content)

\* a branch of AppContent that answers at once with a system message
AnswerAtOnce(content, text) ==
    /\ messages' = messages \o
            <<ChatMessage("user", content, Id("", now)),
              ChatMessage("system", text, Id("", now))>>
    /\ isLoading' = FALSE
    /\ streamingMessage' = Null
    /\ UNCHANGED <<call, inflight, requests, isProcessing>>

\* AgentDisabled with no agent marked disabled
AgentDisabled_None(agent) == FALSE

\* agents[agent].disabled
AgentDisabled(agent) == agent \in {"product-reviews", "youtube-comments"}

AgentLabel(agent) ==
    CASE agent = "product-reviews" -> "Product Reviews"
      [] agent = "youtube-comments" -> "YouTube Comments"
      [] agent = "app-reviews" -> "App Reviews"
      [] OTHER -> "Chat"

\* AppContent; values (the handler's inputValues) is Null or a record with `url`
AppContentHandleSendMessage(content, values) ==
    IF selectedAgent = "app-reviews" /\ values # Null /\ Truthy(Get(values, "url"))
    THEN /\ isProcessing' = TRUE
         /\ messages' = messages \o
                <<ChatMessage("user", <<"Analyzing reviews from: ">> \o values.url,
                              Id("", now)),
                  ChatMessage("assistant", <<"Starting review analysis...">>,
                              Id("loading", 0))>>
         /\ call' = [kind |-> "reviews", pc |-> "post",
                     body |-> [url |-> values.url], lastChunk |-> Null,
                     offset |-> 0]
         /\ inflight' = inflight + 1
         /\ requests' = requests + 1
         /\ UNCHANGED <<isLoading, streamingMessage>>
    ELSE IF selectedAgent = "chat" THEN StartStreaming(content)
    ELSE IF selectedAgent = "app-reviews" THEN AnswerAtOnce(content, ProvideUrlText)
    ELSE IF AgentDisabled(selectedAgent)
         THEN AnswerAtOnce(content,
                <<"The ", AgentLabel(selectedAgent),
                  " agent is coming soon. Please try another agent.">>)
    ELSE /\ messages' = Append(messages, ChatMessage("user", content, Id("", now)))
         /\ isLoading' = TRUE
         /\ streamingMessage' = Null
         /\ UNCHANGED <<call, inflight, requests, isProcessing>>

HandleSendMessage(content, values) ==
    /\ CASE app = "App" -> AppHandleSendMessage(content)
         [] app = "StreamApp" -> StreamAppHandleSendMessage(content)
         [] OTHER -> AppContentHandleSendMessage(content, values)
    /\ log' = <<>>
    /\ wire' = <<>>
    /\ outcome' = IF call' = NoCall THEN Outcome("answered", <<>>) ELSE NoOutcome
    /\ turnStart' = Len(messages)
    /\ turns' = turns + 1
    /\ UNCHANGED <<app, selectedAgent, now, budget>>

-----------------------------------------------------------------------------
(* ChatInput *)

\* ChatInput never disabled
Disabled_Never == FALSE

\* the `disabled` prop ChatInput is rendered with
Disabled ==
    IF app = "AppContent" THEN isLoading \/ isProcessing ELSE isLoading

\* AgentContext.agents: the input fields of each agent; of the options of a
\* radio or select field the first two are kept
Inputs(agent) ==
    CASE agent = "chat" ->
            <<[id |-> "message", type |-> "textarea", required |-> TRUE,
               defaultValue |-> <<>>, options |-> {}]>>
      [] agent = "app-reviews" ->
            <<[id |-> "url", type |-> "text", required |-> TRUE,
               defaultValue |-> <<>>, options |-> {}]>>
      [] agent = "product-reviews" ->
            <<[id |-> "url", type |-> "text", required |-> TRUE,
               defaultValue |-> <<>>, options |-> {}],
              [id |-> "sentiment", type |-> "radio", required |-> FALSE,
               defaultValue |-> <<"all">>, options |-> {<<"all">>, <<"positive">>}],
              [id |-> "count", type |-> "number", required |-> FALSE,
               defaultValue |-> <<"20">>, options |-> {}]>>
      [] OTHER ->
            <<[id |-> "url", type |-> "text", required |-> TRUE,
               defaultValue |-> <<>>, options |-> {}],
              [id |-> "filter", type |-> "select", required |-> FALSE,
               defaultValue |-> <<"top">>, options |-> {<<"top">>, <<"recent">>}]>>

InputIds(agent) == {Inputs(agent)[i].id : i \in 1..Len(Inputs(agent))}

InputOf(agent, id) ==
    Inputs(agent)[CHOOSE i \in 1..Len(Inputs(agent)) : Inputs(agent)[i].id = id]

\* the values the fields are reset to: the default value, or ''
InitialValues(agent) ==
    [id \in InputIds(agent) |-> InputOf(agent, id).defaultValue]

\* RequiredFieldsFilled passing a required field that holds only blanks
RequiredFieldsFilled_Blank(agent, vals) ==
    \A id \in InputIds(agent) : InputOf(agent, id).required => vals[id] # <<>>

\* every required field holds a string that is not blank
RequiredFieldsFilled(agent, vals) ==
    \A id \in InputIds(agent) : InputOf(agent, id).required => Trim(vals[id]) # <<>>

\* one input of type text or textarea
IsSimpleAgent(agent) ==
    /\ Len(Inputs(agent)) = 1
    /\ Inputs(agent)[1].type \in {"text", "textarea"}

\* JSON.stringify(inputValues), as text
RECURSIVE StringifyFields(_, _, _)
StringifyFields(agent, vals, i) ==
    IF i > Len(Inputs(agent)) THEN <<"}">>
    ELSE <<IF i = 1 THEN "{" ELSE ",", Inputs(agent)[i].id, ":">>
         \o vals[Inputs(agent)[i].id]
         \o StringifyFields(agent, vals, i + 1)

\* the agent whose fields ChatInput shows
CurrentAgent == selectedAgent

\* handleSubmit: onSendMessage is called with one argument, the trimmed value
\* of a single field or the JSON text of all the fields
HandleSubmit ==
    /\ turns < budget.turns
    /\ IF Disabled THEN UNCHANGED vars
       ELSE IF ~RequiredFieldsFilled(CurrentAgent, inputValues) THEN UNCHANGED vars
       ELSE IF IsSimpleAgent(CurrentAgent)
       THEN LET inputId == Inputs(CurrentAgent)[1].id
                value == inputValues[inputId]
            IN IF Trim(value) # <<>>
               THEN /\ HandleSendMessage(Trim(value), Null)
                    /\ inputValues' = [inputValues EXCEPT ![inputId] = <<>>]
               ELSE UNCHANGED vars
       ELSE /\ HandleSendMessage(StringifyFields(CurrentAgent, inputValues, 1), Null)
            /\ inputValues' = InitialValues(CurrentAgent)

\* handleTextareaChange / handleInputChange on the first field, which like
\* every field is rendered disabled while ChatInput is disabled
TypeInput ==
    /\ turns < budget.turns
    /\ ~Disabled
    /\ \E raw \in RawInputs :
          inputValues' = [inputValues EXCEPT ![Inputs(CurrentAgent)[1].id] = raw]
    /\ UNCHANGED <<app, messages, isLoading, isProcessing, streamingMessage,
                   selectedAgent, now, call, inflight, requests, log, wire, outcome,
                   turnStart, turns, budget>>

\* handleInputChange of a radio field, the onChange of a select field
ChooseOption ==
    /\ turns < budget.turns
    /\ ~Disabled
    /\ \E id \in InputIds(CurrentAgent) :
          \E v \in InputOf(CurrentAgent, id).options :
              inputValues' = [inputValues EXCEPT ![id] = v]
    /\ UNCHANGED <<app, messages, isLoading, isProcessing, streamingMessage,
                   selectedAgent, now, call, inflight, requests, log, wire, outcome,
                   turnStart, turns, budget>>

\* Layout.sidebarItems: the entries of the sidebar
SidebarItems ==
    {[label |-> "Dashboard", path |-> "/", group |-> FALSE, child |-> FALSE, disabled |-> FALSE],
     [label |-> "Review Agents", path |-> "", group |-> TRUE, child |-> FALSE, disabled |-> FALSE],
     [label |-> "App Reviews", path |-> "/reviews/app", group |-> FALSE, child |-> TRUE,
      disabled |-> FALSE],
     [label |-> "Settings", path |-> "/settings", group |-> FALSE, child |-> FALSE,
      disabled |-> FALSE],
     [label |-> "Profile", path |-> "/profile", group |-> FALSE, child |-> FALSE,
      disabled |-> FALSE]}

\* ChildAgent sending the App Reviews entry to the Product Reviews agent
ChildAgent_Product(path, current) ==
    IF path = "/reviews/app" THEN "product-reviews"
    ELSE IF path = "/reviews/product" THEN "product-reviews"
    ELSE IF path = "/reviews/youtube" THEN "youtube-comments"
    ELSE current

\* the agent a click on a child entry that is not disabled selects
ChildAgent(path, current) ==
    IF path = "/reviews/app" THEN "app-reviews"
    ELSE IF path = "/reviews/product" THEN "product-reviews"
    ELSE IF path = "/reviews/youtube" THEN "youtube-comments"
    ELSE current

\* the selected agent after the onClick of a sidebar entry
AfterClick(item, current) ==
    IF item.child
    THEN IF ~item.disabled THEN ChildAgent(item.path, current) ELSE current
    ELSE IF item.group THEN current
    ELSE IF item.path = "/" THEN "chat"
    ELSE current

\* Layout.SidebarContent: a click on a sidebar entry; when the agent changes
\* ChatInput's effect resets the input values
SelectAgent ==
    /\ app = "AppContent"
    /\ \E item \in SidebarItems :
          /\ selectedAgent' = AfterClick(item, selectedAgent)
          /\ inputValues' = IF selectedAgent' # selectedAgent
                            THEN InitialValues(selectedAgent')
                            ELSE inputValues
    /\ UNCHANGED <<app, messages, isLoading, isProcessing, streamingMessage,
                   now, call, inflight, requests, log, wire, outcome, turnStart,
                   turns, budget>>

Tick ==
    /\ now < budget.clock
    /\ now' = now + 1
    /\ UNCHANGED <<app, messages, isLoading, isProcessing, streamingMessage,
                   selectedAgent, call, inflight, requests, log, wire, outcome,
                   turnStart, turns, budget,
                   inputValues>>

-----------------------------------------------------------------------------
(* sendChatCompletion and the rest of App.handleSendMessage (App.tsx) *)

\* Settle issuing the request again after a failure
Settle_Retry(how, input) ==
    IF how \in {"rejected", "not-ok"} /\ requests <= turns
    THEN /\ call' = [call EXCEPT !.pc = "fetch"]
         /\ requests' = requests + 1
         /\ UNCHANGED <<inflight, outcome>>
    ELSE /\ call' = NoCall
         /\ inflight' = inflight - 1
         /\ outcome' = Outcome(how, input)
         /\ UNCHANGED requests

\* the call settles: the promise resolves or its catch has run; nothing is sent again
Settle(how, input) ==
    /\ call' = NoCall
    /\ inflight' = inflight - 1
    /\ outcome' = Outcome(how, input)
    /\ UNCHANGED requests

Others == UNCHANGED <<app, isProcessing, selectedAgent, now, wire, turnStart, turns, budget,
                   inputValues>>

\* catch (error) { ... } finally { setIsLoading(false) }
AppCatch(text) ==
    /\ messages' = Append(messages, ChatMessage("system", text, Id("", now + 1)))
    /\ isLoading' = FALSE
    /\ log' = Append(log, ErrorEvent("rejected", text))
    /\ UNCHANGED streamingMessage

\* fetch() rejects
CompletionRejects ==
    /\ call.kind = "completion" /\ call.pc = "fetch"
    /\ \E e \in NetErrors : AppCatch(e) /\ Settle("rejected", e)
    /\ Others

\* !response.ok
CompletionNotOk ==
    /\ call.kind = "completion" /\ call.pc = "fetch"
    /\ \E body \in ErrorBodies :
          /\ AppCatch(NotOkMessage(body, DefaultCompletionError))
          /\ Settle("not-ok", body)
    /\ Others

\* the message sendChatCompletion returns for the parsed body `data`
ReturnedMessage(data, t) ==
    ChatMessage(Get(data, "role"), Get(data, "content"), Id("", t))

\* response.ok: the body is parsed and the message returned, or json() rejects
CompletionOk ==
    /\ call.kind = "completion" /\ call.pc = "fetch"
    /\ \E body \in CompletionBodies :
          LET p == JSONparse(body)
          IN IF p.ok
             THEN /\ messages' = Append(messages, ReturnedMessage(p.val, now))
                  /\ isLoading' = FALSE
                  /\ log' = Append(log, MessageEvent("resolved", ReturnedMessage(p.val, now)))
                  /\ UNCHANGED streamingMessage
                  /\ Settle("resolved", body)
             ELSE AppCatch(JsonSyntaxError) /\ Settle("bad-json", body)
    /\ Others

-----------------------------------------------------------------------------
(* sendChatCompletionStream *)

\* fetch() rejects: the outer catch calls onError
StreamRejects ==
    /\ call.kind = "stream" /\ call.pc = "fetch"
    /\ \E e \in NetErrors :
          Commit(OnError(CurrentUi, e, now)) /\ Settle("rejected", e)
    /\ Others

\* !response.ok
StreamNotOk ==
    /\ call.kind = "stream" /\ call.pc = "fetch"
    /\ \E body \in ErrorBodies :
          /\ Commit(OnError(CurrentUi, NotOkMessage(body, DefaultStreamError), now))
          /\ Settle("not-ok", body)
    /\ Others

\* response.body is null: no reader
StreamNoBody ==
    /\ call.kind = "stream" /\ call.pc = "fetch"
    /\ Commit(OnError(CurrentUi, NoReaderError, now))
    /\ Settle("no-body", <<>>)
    /\ Others

\* response.ok with a body: the read loop starts
StreamOk ==
    /\ call.kind = "stream" /\ call.pc = "fetch"
    /\ call' = [call EXCEPT !.pc = "read"]
    /\ UNCHANGED <<app, messages, isLoading, isProcessing, streamingMessage,
                   selectedAgent, now, inflight, requests, log, wire, outcome,
                   turnStart, turns, budget,
                   inputValues>>

\* reader.read() resolves with the bytes of whole blocks the server wrote
ReadValue ==
    /\ call.kind = "stream" /\ call.pc = "read"
    /\ \E bs \in BlockRuns(wire, MaxPerRead) :
          /\ bs # <<>>
          /\ Len(wire) + Len(bs) <= budget.blocks
          /\ LET st == ProcessRead(EncodeAll(bs), CurrentUi, call.lastChunk, now)
             IN /\ wire' = wire \o bs
                /\ IF st.thrown # Null
                   THEN /\ Commit(OnError(st.ui, st.thrown.message, now))
                        /\ Settle("thrown", st.thrown.message)
                   ELSE /\ Commit(st.ui)
                        /\ IF st.returned
                           THEN Settle("finished", <<>>)
                           ELSE /\ call' = [call EXCEPT
                                              !.lastChunk = st.lastChunk,
                                              !.offset = Len(EncodeAll(wire \o bs))]
                                /\ UNCHANGED <<inflight, requests, outcome>>
    /\ UNCHANGED <<app, isProcessing, selectedAgent, now, turnStart, turns, budget,
                   inputValues>>

\* the larger of two numbers
Max(a, b) == IF a >= b THEN a ELSE b

\* reader.read() resolves with the next bytes of the body, wherever the
\* network cut them: from the offset up to any later symbol.  The server has
\* written just the blocks that these bytes reach into.
ReadSegment ==
    /\ call.kind = "stream" /\ call.pc = "read"
    /\ \E bs \in BlockRuns(wire, MaxPerRead) :
          /\ Len(wire) + Len(bs) <= budget.blocks
          /\ LET sent == EncodeAll(wire \o bs)
                 reach == IF bs = <<>> THEN call.offset
                          ELSE Len(EncodeAll(wire \o SubSeq(bs, 1, Len(bs) - 1)))
             IN \E k \in (Max(call.offset, reach) + 1)..Len(sent) :
                   LET st == ProcessRead(SubSeq(sent, call.offset + 1, k),
                                         CurrentUi, call.lastChunk, now)
                   IN /\ wire' = wire \o bs
                      /\ IF st.thrown # Null
                         THEN /\ Commit(OnError(st.ui, st.thrown.message, now))
                              /\ Settle("thrown", st.thrown.message)
                         ELSE /\ Commit(st.ui)
                              /\ IF st.returned
                                 THEN Settle("finished", <<>>)
                                 ELSE /\ call' = [call EXCEPT
                                                    !.lastChunk = st.lastChunk,
                                                    !.offset = k]
                                      /\ UNCHANGED <<inflight, requests, outcome>>
    /\ UNCHANGED <<app, isProcessing, selectedAgent, now, turnStart, turns, budget,
                   inputValues>>

\* reader.read() resolves with done: the server closed the body after the
\* last block it wrote, and every byte has been handed out
ReadDone ==
    /\ call.kind = "stream" /\ call.pc = "read"
    /\ call.offset = Len(EncodeAll(wire))
    /\ Commit(AfterLoop(CurrentUi, call.lastChunk, now))
    /\ Settle("done", <<>>)
    /\ Others

\* reader.read() rejects
ReadRejects ==
    /\ call.kind = "stream" /\ call.pc = "read"
    /\ \E e \in NetErrors :
          Commit(OnError(CurrentUi, e, now)) /\ Settle("read-rejected", e)
    /\ Others

-----------------------------------------------------------------------------
(* The review stream, as the spec describes it: events {event, data} *)

\* the n-th progress text the backend reports
ProgressAt(n) == IF n = 1 THEN "Opening the store page" ELSE "Extracting reviews"

\* `data` values of a complete event: results with two extracted reviews, an
\* object without results
ReviewResults == {[results |-> [extracted_reviews |-> 2]], [status |-> <<"ok">>]}

\* `data` values of an error event
ReviewErrors == {<<"Scraping failed">>}

\* the events the review stream can deliver next, after having delivered w;
\* a complete event may lack its data, an event may be of an unknown type,
\* and the data of an SSE event may not be JSON
NextEvents(w) ==
    {[event |-> "progress", text |-> <<ProgressAt(Len(w) + 1)>>]}
    \cup {[event |-> "complete", result |-> r] : r \in ReviewResults}
    \cup {[event |-> "complete"]}
    \cup {[event |-> "error", text |-> e] : e \in ReviewErrors}
    \cup {[event |-> "ping"], [event |-> "malformed"]}

\* the JSON object of an event
EventPayload(ev) ==
    IF "text" \in DOMAIN ev THEN [event |-> ev.event, data |-> ev.text]
    ELSE IF "result" \in DOMAIN ev THEN [event |-> ev.event, data |-> ev.result]
    ELSE [event |-> ev.event]

\* event.data of the MessageEvent the EventSource dispatches
EventData(ev) ==
    IF ev.event = "malformed" THEN <<Junk>> ELSE JSONstringify(EventPayload(ev))

\* bodies of an ok response of /api/reviews/analyze
ReviewBodies ==
    {JSONstringify([stream_url |-> <<"/api/reviews/stream/1">>]),
     JSONstringify([status |-> <<"started">>]),
     <<Junk>>}

-----------------------------------------------------------------------------
(* AppContent: the three callbacks handed to analyzeReviews *)

HttpErrorText == <<"HTTP error! status: 500">>
NoStreamUrlError == <<"No stream URL returned from server">>
EsConnectError == <<"Failed to connect to the server">>
\* the TypeError of result.results when result is undefined
ResultTypeError == <<"Cannot read properties of undefined (reading 'results')">>

ReviewUi == [messages |-> messages, isProcessing |-> isProcessing, log |-> log]

CommitReview(ui) ==
    /\ messages' = ui.messages
    /\ isProcessing' = ui.isProcessing
    /\ log' = ui.log

ProgressEvent(text) == [cb |-> "onProgress", text |-> text]
\* count: the reviews the call's result carried, -1 when there was no result
CompleteEvent(count) == [cb |-> "onComplete", count |-> count]

IsLoadingId(m) == m.id.prefix = "loading"

\* prev.map(msg => msg.id === 'loading' ? { ...msg, content: progress } : msg)
MapLoading(ms, progress) ==
    [i \in 1..Len(ms) |->
        IF IsLoadingId(ms[i]) THEN [ms[i] EXCEPT !.content = progress] ELSE ms[i]]

\* prev.filter(msg => msg.id !== 'loading')
DropLoading(ms) == SelectSeq(ms, LAMBDA m : ~IsLoadingId(m))

ReviewOnProgress(ui, progress) ==
    [ui EXCEPT
        !.messages = MapLoading(@, progress),
        !.log = Append(@, ProgressEvent(progress))]

\* (result.results?.extracted_reviews || []).length
ExtractedCount(result) ==
    IF "results" \in DOMAIN result /\ "extracted_reviews" \in DOMAIN result.results
    THEN result.results.extracted_reviews
    ELSE 0

Summary(result) ==
    <<"Analysis complete! Processed ", ToString(ExtractedCount(result)), " reviews.">>

\* the message the complete callback appends; its data carries the reviews
SummaryMessage(result, t) ==
    [role |-> "assistant", content |-> Summary(result), id |-> Id("", t),
     data |-> [extracted_reviews |-> ExtractedCount(result)]]

\* the complete callback, for a result that is an object
ReviewOnComplete(ui, result, t) ==
    [ui EXCEPT
        !.messages = Append(DropLoading(@), SummaryMessage(result, t)),
        !.isProcessing = FALSE,
        !.log = Append(@, CompleteEvent(ExtractedCount(result)))]

\* the complete callback, for an undefined result: result.results throws
\* before any state is set
ReviewOnCompleteThrows(ui) ==
    [ui EXCEPT !.log = Append(@, CompleteEvent(-1))]

\* ReviewOnError leaving the 'loading' message in the list
ReviewOnError_KeepLoading(ui, text, t) ==
    [ui EXCEPT
        !.messages = Append(@,
                        ChatMessage("assistant", <<"Error analyzing reviews: ">> \o text,
                                    Id("", t))),
        !.isProcessing = FALSE,
        !.log = Append(@, ErrorEvent("onError", text))]

ReviewOnError(ui, text, t) ==
    [ui EXCEPT
        !.messages = Append(DropLoading(@),
                        ChatMessage("assistant", <<"Error analyzing reviews: ">> \o text,
                                    Id("", t))),
        !.isProcessing = FALSE,
        !.log = Append(@, ErrorEvent("onError", text))]

-----------------------------------------------------------------------------
(* analyzeReviews *)

\* OnMessage answering an error event with onComplete
OnMessage_ErrorCompletes(eventData, ui, t) ==
    LET p == JSONparse(eventData)
    IN IF ~p.ok
       THEN [ui |-> ReviewOnError(ui, JsonSyntaxError, t), closed |-> TRUE]
       ELSE CASE p.val.event = "progress" ->
                    [ui |-> ReviewOnProgress(ui, p.val.data), closed |-> FALSE]
              [] p.val.event \in {"complete", "error"} ->
                    [ui |-> ReviewOnComplete(ui, [status |-> <<"ok">>], t), closed |-> TRUE]
              [] OTHER -> [ui |-> ui, closed |-> FALSE]

\* OnMessage skipping an event whose data is not JSON, as the chat stream does
OnMessage_SkipMalformed(eventData, ui, t) ==
    LET p == JSONparse(eventData)
    IN IF ~p.ok
       THEN [ui |-> ui, closed |-> FALSE]
       ELSE CASE p.val.event = "progress" ->
                    [ui |-> ReviewOnProgress(ui, p.val.data), closed |-> FALSE]
              [] p.val.event = "complete" ->
                    IF "data" \in DOMAIN p.val
                    THEN [ui |-> ReviewOnComplete(ui, p.val.data, t), closed |-> TRUE]
                    ELSE [ui |-> ReviewOnError(ReviewOnCompleteThrows(ui),
                                              ResultTypeError, t),
                          closed |-> TRUE]
              [] p.val.event = "error" ->
                    [ui |-> ReviewOnError(ui, p.val.data, t), closed |-> TRUE]
              [] OTHER -> [ui |-> ui, closed |-> FALSE]

\* eventSource.onmessage: the state after it, and whether it closed the source
OnMessage(eventData, ui, t) ==
    LET p == JSONparse(eventData)
    IN IF ~p.ok
       THEN [ui |-> ReviewOnError(ui, JsonSyntaxError, t), closed |-> TRUE]
       ELSE CASE p.val.event = "progress" ->
                    [ui |-> ReviewOnProgress(ui, p.val.data), closed |-> FALSE]
              [] p.val.event = "complete" ->
                    IF "data" \in DOMAIN p.val
                    THEN [ui |-> ReviewOnComplete(ui, p.val.data, t), closed |-> TRUE]
                    ELSE [ui |-> ReviewOnError(ReviewOnCompleteThrows(ui),
                                              ResultTypeError, t),
                          closed |-> TRUE]
              [] p.val.event = "error" ->
                    [ui |-> ReviewOnError(ui, p.val.data, t), closed |-> TRUE]
              [] OTHER -> [ui |-> ui, closed |-> FALSE]

ReviewOthers ==
    UNCHANGED <<app, isLoading, streamingMessage, selectedAgent, now, turnStart,
                turns, budget,
                   inputValues>>

\* handleSendMessage called with the input values of the URL field
SubmitUrl ==
    /\ turns < budget.turns
    /\ ~Disabled
    /\ HandleSendMessage(StoreUrl, [url |-> StoreUrl])
    /\ UNCHANGED inputValues

\* the POST rejects: the catch calls onError
PostRejects ==
    /\ call.kind = "reviews" /\ call.pc = "post"
    /\ \E e \in NetErrors :
          CommitReview(ReviewOnError(ReviewUi, e, now)) /\ Settle("rejected", e)
    /\ UNCHANGED wire
    /\ ReviewOthers

\* !response.ok || !response.body
PostNotOk ==
    /\ call.kind = "reviews" /\ call.pc = "post"
    /\ CommitReview(ReviewOnError(ReviewUi, HttpErrorText, now))
    /\ Settle("not-ok", <<>>)
    /\ UNCHANGED wire
    /\ ReviewOthers

\* the POST resolves with an ok response: its body is read next
PostOk ==
    /\ call.kind = "reviews" /\ call.pc = "post"
    /\ call' = [call EXCEPT !.pc = "json"]
    /\ UNCHANGED <<messages, isProcessing, log, wire, inflight, requests, outcome>>
    /\ ReviewOthers

\* HasStreamUrl taking every parsed body
HasStreamUrl_Always(data) == TRUE

\* data.stream_url in a boolean context
HasStreamUrl(data) == Truthy(Get(data, "stream_url"))

\* response.json() settles: the EventSource is created when there is a
\* stream_url, which the call then holds as the source's url
JsonRead ==
    /\ call.kind = "reviews" /\ call.pc = "json"
    /\ \E body \in ReviewBodies :
          LET p == JSONparse(body)
          IN IF ~p.ok
             THEN /\ CommitReview(ReviewOnError(ReviewUi, JsonSyntaxError, now))
                  /\ Settle("bad-json", body)
             ELSE IF ~HasStreamUrl(p.val)
             THEN /\ CommitReview(ReviewOnError(ReviewUi, NoStreamUrlError, now))
                  /\ Settle("no-stream-url", body)
             ELSE /\ call' = [call EXCEPT !.pc = "open",
                                           !.body = [stream_url |-> Get(p.val, "stream_url")]]
                  /\ UNCHANGED <<messages, isProcessing, log, inflight, requests, outcome>>
    /\ UNCHANGED wire
    /\ ReviewOthers

\* the EventSource dispatches a message event
EsMessage ==
    /\ call.kind = "reviews" /\ call.pc = "open"
    /\ Len(wire) < budget.blocks
    /\ \E ev \in NextEvents(wire) :
          LET r == OnMessage(EventData(ev), ReviewUi, now)
          IN /\ wire' = Append(wire, ev)
             /\ CommitReview(r.ui)
             /\ IF r.closed
                THEN Settle("closed", <<>>)
                ELSE UNCHANGED <<call, inflight, requests, outcome>>
    /\ ReviewOthers

\* the EventSource dispatches an error event
EsError ==
    /\ call.kind = "reviews" /\ call.pc = "open"
    /\ CommitReview(ReviewOnError(ReviewUi, EsConnectError, now))
    /\ Settle("es-error", <<>>)
    /\ UNCHANGED wire
    /\ ReviewOthers

\* the message of the AbortError a fetch or a body read rejects with
AbortErrorText == <<"The user aborted a request.">>

\* the function analyzeReviews returns, called by its caller while the call
\* is running: controller.abort(), then eventSource?.close()
Cleanup ==
    /\ call.kind = "reviews" /\ call.pc \in {"post", "json", "open"}
    /\ IF call.pc = "open"
       THEN Settle("cleaned", <<>>)
       ELSE /\ call' = [call EXCEPT !.pc = IF call.pc = "post" THEN "post-aborted"
                                           ELSE "json-aborted"]
            /\ UNCHANGED <<inflight, requests, outcome>>
    /\ UNCHANGED <<messages, isProcessing, log, wire>>
    /\ ReviewOthers

\* the aborted fetch, or the read of the aborted response's body, rejects
\* with an AbortError: the catch calls onError
AbortRejects ==
    /\ call.kind = "reviews" /\ call.pc \in {"post-aborted", "json-aborted"}
    /\ CommitReview(ReviewOnError(ReviewUi, AbortErrorText, now))
    /\ Settle("aborted", <<>>)
    /\ UNCHANGED wire
    /\ ReviewOthers

-----------------------------------------------------------------------------

Init ==
    /\ app \in {"App", "StreamApp", "AppContent"}
    /\ messages = <<>>
    /\ isLoading = FALSE
    /\ isProcessing = FALSE
    /\ streamingMessage = Null
    /\ selectedAgent = "chat"
    /\ now = 0
    /\ call = NoCall
    /\ inflight = 0
    /\ requests = 0
    /\ inputValues = InitialValues(selectedAgent)
    /\ log = <<>>
    /\ wire = <<>>
    /\ outcome = NoOutcome
    /\ turnStart = 0
    /\ turns = 0
    /\ budget \in Budgets

\* fetch() settles
Respond ==
    \/ CompletionRejects
    \/ CompletionNotOk
    \/ CompletionOk
    \/ StreamRejects
    \/ StreamNotOk
    \/ StreamNoBody
    \/ StreamOk

Transport ==
    \/ Respond
    \/ ReadValue
    \/ ReadDone
    \/ ReadRejects

Next ==
    \/ TypeInput
    \/ HandleSubmit
    \/ SelectAgent
    \/ Tick
    \/ Transport

Spec == Init /\ [][Next]_vars

\* the transport eventually responds or fails, and eventually closes the stream
FairSpec == Spec /\ WF_vars(Respond) /\ WF_vars(ReadDone)

\* One streaming turn of the streaming App whose body arrives in reads cut
\* at any symbol.
SegInit ==
    /\ app = "StreamApp"
    /\ messages = <<>>
    /\ isLoading = FALSE
    /\ isProcessing = FALSE
    /\ streamingMessage = Null
    /\ selectedAgent = "chat"
    /\ now = 0
    /\ call = NoCall
    /\ inflight = 0
    /\ requests = 0
    /\ inputValues = InitialValues(selectedAgent)
    /\ log = <<>>
    /\ wire = <<>>
    /\ outcome = NoOutcome
    /\ turnStart = 0
    /\ turns = 0
    /\ budget = [turns |-> 1, blocks |-> MaxBlocks, clock |-> 0]

SegNext ==
    \/ TypeInput
    \/ HandleSubmit
    \/ StreamOk
    \/ ReadSegment
    \/ ReadDone

SegSpec == SegInit /\ [][SegNext]_vars

\* AppContent with the App Reviews agent selected, handleSendMessage being
\* called with the URL as input values.
ReviewInit ==
    /\ app = "AppContent"
    /\ messages = <<>>
    /\ isLoading = FALSE
    /\ isProcessing = FALSE
    /\ streamingMessage = Null
    /\ selectedAgent = "app-reviews"
    /\ now = 0
    /\ call = NoCall
    /\ inflight = 0
    /\ requests = 0
    /\ inputValues = InitialValues(selectedAgent)
    /\ log = <<>>
    /\ wire = <<>>
    /\ outcome = NoOutcome
    /\ turnStart = 0
    /\ turns = 0
    /\ budget \in Budgets

ReviewNext ==
    \/ SubmitUrl
    \/ Tick
    \/ PostRejects
    \/ PostNotOk
    \/ PostOk
    \/ JsonRead
    \/ EsMessage
    \/ EsError

ReviewSpec == ReviewInit /\ [][ReviewNext]_vars

\* AppContent mounted with any agent of AgentContext.agents as the
\* provider's selection, the agents marked disabled among them.
Agents == {"chat", "app-reviews", "product-reviews", "youtube-comments"}

AgentInit ==
    /\ app = "AppContent"
    /\ messages = <<>>
    /\ isLoading = FALSE
    /\ isProcessing = FALSE
    /\ streamingMessage = Null
    /\ selectedAgent \in Agents
    /\ now = 0
    /\ call = NoCall
    /\ inflight = 0
    /\ requests = 0
    /\ inputValues = InitialValues(selectedAgent)
    /\ log = <<>>
    /\ wire = <<>>
    /\ outcome = NoOutcome
    /\ turnStart = 0
    /\ turns = 0
    /\ budget \in Budgets

AgentNext ==
    \/ TypeInput
    \/ ChooseOption
    \/ HandleSubmit
    \/ SelectAgent
    \/ Tick
    \/ StreamRejects
    \/ StreamNotOk
    \/ StreamNoBody
    \/ StreamOk
    \/ ReadValue
    \/ ReadDone
    \/ ReadRejects

AgentSpec == AgentInit /\ [][AgentNext]_vars

\* analyzeReviews with a caller that may invoke the cleanup function
CleanupNext ==
    \/ SubmitUrl
    \/ Tick
    \/ PostRejects
    \/ PostNotOk
    \/ PostOk
    \/ JsonRead
    \/ EsMessage
    \/ EsError
    \/ Cleanup
    \/ AbortRejects

CleanupSpec == ReviewInit /\ [][CleanupNext]_vars

-----------------------------------------------------------------------------
(* Properties *)

\* the messages appended in the current turn after the user's message
Replies == SubSeq(messages, turnStart + 2, Len(messages))

\* a block whose payload JSON.parse accepts
IsParsed(b) == b.kind \in {"chunk", "error"}

ParsedBlocks(w) == SelectSeq(w, IsParsed)

IsChunk(b) == b.kind = "chunk"

Last(q) == q[Len(q)]

C2_ErrorPayloadStops ==
    \A i \in 1..Len(wire) :
        (/\ wire[i].kind = "error"
         /\ \A j \in 1..(i - 1) : wire[j].kind # "error" /\ ~wire[j].finished)
        => /\ outcome.how # "none"
           /\ log # <<>>
           /\ Last(log) = ErrorEvent("onError", wire[i].error)
           /\ \A k \in 1..Len(log) : log[k].cb # "onComplete"
           /\ Len(SelectSeq(log, LAMBDA e : e.cb = "onChunk"))
                 <= Len(ParsedBlocks(SubSeq(wire, 1, i - 1)))
           /\ Len(Replies) = 1
           /\ Replies[1].role = "system"
           /\ Replies[1].content = wire[i].error

\* C3: a stream of well-formed chunks, only the last of them finished, appends
\* exactly one assistant message, whose content is the finished chunk's content.
C3_FinishedStream ==
    (/\ wire # <<>>
     /\ \A i \in 1..Len(wire) : IsChunk(wire[i]) /\ (wire[i].finished <=> i = Len(wire)))
    => /\ outcome.how = "finished"
       /\ Len(Replies) = 1
       /\ Replies[1].role = "assistant"
       /\ Replies[1].content = Last(wire).content
       /\ streamingMessage = Null

\* chunks 'Hi' then 'Hi there' (finished) gave one assistant message 'Hi there'
C3_Witness ==
    /\ Len(wire) = 2
    /\ IsChunk(wire[1]) /\ ~wire[1].finished /\ wire[1].content = <<"Hi">>
    /\ IsChunk(wire[2]) /\ wire[2].finished
    /\ Replies = <<ChatMessage("assistant", <<"Hi", " there">>, Replies[1].id)>>

\* the wire without its malformed blocks
Clean(w) == SelectSeq(w, LAMBDA b : b.kind # "malformed")

\* what a log shows, without the ids
LogView(l) ==
    [i \in 1..Len(l) |->
        IF l[i].cb = "onChunk" THEN <<"onChunk", l[i].content, l[i].delta>>
        ELSE IF l[i].cb \in {"onError", "rejected"} THEN <<l[i].cb, l[i].text>>
        ELSE <<l[i].cb, l[i].message.role, l[i].message.content>>]

MessagesView(ms) ==
    [i \in 1..Len(ms) |-> <<ms[i].role, ms[i].content>>]

\* the state a fresh streaming turn reaches on the blocks bs delivered in one
\* read, the stream then closed iff `closed`
Reference(bs, closed) ==
    LET ui0 == [messages |-> <<>>, isLoading |-> TRUE,
                streamingMessage |-> ChatMessage("assistant", <<>>, Id("streaming-", 0)),
                log |-> <<>>]
        st == ProcessRead(EncodeAll(bs), ui0, Null, 0)
    IN IF st.returned \/ ~closed THEN st.ui ELSE AfterLoop(st.ui, st.lastChunk, 0)

\* C4: a malformed block is skipped: at every point of a streaming turn, and
\* when it has ended, the callbacks invoked (none of them onError for the
\* malformed block, no onChunk for it), the in-progress content and the
\* assistant message are those of the same stream without its malformed blocks.
C4_MalformedSkipped ==
    (\/ call.kind = "stream" /\ call.pc = "read"
     \/ outcome.how \in {"finished", "done", "thrown"})
    => LET ref == Reference(Clean(wire), outcome.how = "done")
       IN /\ LogView(log) = LogView(ref.log)
          /\ MessagesView(Replies) = MessagesView(ref.messages)
          /\ (streamingMessage = Null) = (ref.streamingMessage = Null)
          /\ streamingMessage # Null =>
                streamingMessage.content = ref.streamingMessage.content

\* a malformed block between two valid chunks, and the message is 'Hi there'
C4_Witness ==
    /\ Len(wire) = 3
    /\ IsChunk(wire[1]) /\ wire[2].kind = "malformed" /\ IsChunk(wire[3])
    /\ wire[3].finished
    /\ outcome.how = "finished"
    /\ MessagesView(Replies) = <<<<"assistant", <<"Hi", " there">>>>>>
    /\ Len(log) = 3

UserCount(ms) == Len(SelectSeq(ms, LAMBDA m : m.role = "user"))

\* neither Idle nor free to submit
Busy == isLoading \/ isProcessing

\* C5: at most one request is outstanding, and a step that issues a request or
\* appends the user's message of a turn starts from Idle: a submit while
\* isLoading or isProcessing appends nothing and issues nothing.
C5_OneTurnInFlight ==
    /\ [](inflight <= 1)
    /\ [][(\/ inflight' > inflight
           \/ requests' > requests
           \/ turns' > turns)
          => /\ ~Busy
             /\ Len(messages') > Len(messages)
             /\ messages'[Len(messages) + 1].role = "user"]_vars

\* a request is outstanding while another submit event can still arrive
C5_Witness ==
    /\ inflight = 1
    /\ Busy
    /\ Disabled
    /\ turns < budget.turns

\* C6: every submitted turn returns to Idle, the transport being fair.
C6_ReturnsToIdle == isLoading ~> ~isLoading

\* a second turn that went through the transport and ended
C6_Witness ==
    /\ ~isLoading
    /\ turns = 2
    /\ outcome.how \in {"finished", "resolved"}

\* the `detail` of a non-ok body, Undefined when it has none
DetailOf(body) ==
    IF \E d \in Details : body = <<LB, Obj([detail |-> d]), RB>>
    THEN CHOOSE d \in Details : body = <<LB, Obj([detail |-> d]), RB>>
    ELSE Undefined

DefaultText == IF app = "App" THEN DefaultCompletionError ELSE DefaultStreamError

\* C7, as stated: a rejected fetch or a non-ok response gives exactly one
\* system message, whose content is the rejection's message, or the response's
\* detail when present and otherwise the default text; onChunk is never invoked.
C7_Original ==
    outcome.how \in {"rejected", "not-ok"} =>
        /\ Len(Replies) = 1
        /\ Replies[1].role = "system"
        /\ Replies[1].content =
              IF outcome.how = "rejected" THEN outcome.input
              ELSE IF DetailOf(outcome.input) # Undefined THEN DetailOf(outcome.input)
              ELSE DefaultText
        /\ \A k \in 1..Len(log) : log[k].cb # "onChunk"
        /\ ~isLoading

\* C7, amended: as C7_Original, except that a non-ok response whose body is
\* not JSON gives the message of the failed response.json().
C7_TransportFailure ==
    outcome.how \in {"rejected", "not-ok"} =>
        /\ Len(Replies) = 1
        /\ Replies[1].role = "system"
        /\ Replies[1].content =
              IF outcome.how = "rejected" THEN outcome.input
              ELSE IF DetailOf(outcome.input) # Undefined THEN DetailOf(outcome.input)
              ELSE IF outcome.input = <<Junk>> THEN JsonSyntaxError
              ELSE DefaultText
        /\ \A k \in 1..Len(log) : log[k].cb # "onChunk"
        /\ ~isLoading

\* a non-ok response with a detail was surfaced as a system message
C7_Witness ==
    /\ outcome.how = "not-ok"
    /\ DetailOf(outcome.input) = <<"Rate limited">>
    /\ MessagesView(Replies) = <<<<"system", <<"Rate limited">>>>>>

\* the {role, content} projection of a list of messages
Projection(ms) ==
    [i \in 1..Len(ms) |-> [role |-> ms[i].role, content |-> ms[i].content]]

\* C8: the request body of a turn is the projection of the conversation list
\* at submit time followed by the new user message, with temperature 0.7; with
\* no history and 'Hello' it is {messages: [{user, Hello}], temperature: 0.7}.
C8_RequestBody ==
    /\ []((call.pc = "fetch" /\ Len(messages) = 1 /\ messages[1].content = <<"Hello">>)
            => call.body = [messages |-> <<[role |-> "user", content |-> <<"Hello">>]>>,
                            temperature |-> <<"0.7">>])
    /\ [][(call.pc = "none" /\ call'.pc = "fetch")
          => /\ Len(messages') = Len(messages) + 1
             /\ call'.body =
                  [messages |->
                      Projection(messages) \o
                      <<[role |-> "user", content |-> messages'[Len(messages')].content]>>,
                   temperature |-> <<"0.7">>]
             /\ messages'[Len(messages')].role = "user"
             /\ messages'[Len(messages')].content \in {Trim(r) : r \in RawInputs}]_vars

\* a second turn whose request carries the first turn's messages, a system one among them
C8_Witness ==
    /\ call.pc = "fetch"
    /\ turns = 2
    /\ Len(call.body.messages) = 3
    /\ call.body.messages[2].role = "system"
    /\ call.body.messages[3].role = "user"

\* C9, as stated: the message sendChatCompletion returns has role "assistant".
C9_ReturnedRoleAssistant ==
    \A k \in 1..Len(log) :
        log[k].cb = "resolved" => log[k].message.role = "assistant"

\* C10: while a streaming turn is in flight there is one in-progress message;
\* it is an assistant message with the id given at submit, its content is the
\* `content` of the last parsed chunk (empty before the first), and the turn
\* has appended nothing yet.
C10_InProgressMessage ==
    (call.kind = "stream" /\ call.pc \in {"fetch", "read"})
    => /\ streamingMessage # Null
       /\ streamingMessage.role = "assistant"
       /\ streamingMessage.id = Id("streaming-", messages[turnStart + 1].id.t)
       /\ streamingMessage.content =
             IF ParsedBlocks(wire) = <<>> THEN <<>>
             ELSE Get(Payload(Last(ParsedBlocks(wire))), "content")
       /\ Replies = <<>>

\* two chunks in, the clock has moved on, and the message shows 'Hi there'
C10_Witness ==
    /\ call.kind = "stream" /\ call.pc = "read"
    /\ Len(ParsedBlocks(wire)) = 2
    /\ streamingMessage # Null
    /\ streamingMessage.content = <<"Hi", " there">>
    /\ now > streamingMessage.id.t

\* the outcomes that are failures of the transport
Failures == {"rejected", "not-ok", "bad-json", "no-body", "read-rejected", "thrown"}

\* the submission takes the chat path
ChatPath == app # "AppContent" \/ selectedAgent = "chat"

\* C11: no retry in the chat path: a request is issued only by a step that
\* accepts a user submission, one request per submission, and once a turn has
\* failed nothing is outstanding until the next submission.
C11_NoRetry ==
    /\ [][requests' # requests => turns' = turns + 1 /\ requests' = requests + 1]_vars
    /\ [][(turns' = turns + 1 /\ ChatPath) => requests' = requests + 1]_vars
    /\ [](outcome.how \in Failures => call = NoCall /\ inflight = 0)
    /\ [](requests <= turns)

\* a turn failed, the user submitted again, and the second request is the second fetch
C11_Witness ==
    /\ turns = 2
    /\ requests = 2
    /\ call.pc = "fetch"
    /\ Len(messages) = 3
    /\ messages[2].role = "system"

\* the content_delta values handed to onChunk, concatenated in order
RECURSIVE Deltas(_)
Deltas(l) ==
    IF l = <<>> THEN <<>>
    ELSE IF Head(l).cb = "onChunk" THEN Head(l).delta \o Deltas(Tail(l))
    ELSE Deltas(Tail(l))

\* C12, as stated: when a streaming turn whose body is well-formed chunks, the
\* last of them finished, has ended, the concatenation of the content_delta
\* values handed to onChunk is the finished chunk's content, and that is the
\* content of the one assistant message of the turn.
C12_DeltasConcatenate ==
    (/\ outcome.how \in {"finished", "done"}
     /\ wire # <<>>
     /\ \A i \in 1..Len(wire) : IsChunk(wire[i]) /\ (wire[i].finished <=> i = Len(wire)))
    => /\ Deltas(log) = Last(wire).content
       /\ MessagesView(Replies) = <<<<"assistant", Last(wire).content>>>>

\* C17, as stated: when a streaming turn has ended, the contents handed to
\* onChunk and the message appended are those of the same bytes delivered in
\* a single read, however the reads were cut.
C17_SegmentationIndependent ==
    outcome.how \in {"finished", "done"} =>
        LET ref == Reference(wire, outcome.how = "done")
        IN /\ LogView(log) = LogView(ref.log)
           /\ MessagesView(Replies) = MessagesView(ref.messages)

\* C13: in the chat path the conversation list only grows at its end: after
\* every step the previous list is a prefix of the new one, and a read that
\* does not end the turn leaves the list as it was.
C13_AppendOnly ==
    [][/\ Len(messages') >= Len(messages)
       /\ SubSeq(messages', 1, Len(messages)) = messages
       /\ (call.pc = "read" /\ call'.pc = "read") => messages' = messages]_vars

\* a second streamed turn has completed on top of the first turn's messages
C13_Witness ==
    /\ turns = 2
    /\ outcome.how = "finished"
    /\ Len(messages) = 4
    /\ messages[2].role \in {"assistant", "system"}
    /\ messages[4].role = "assistant"

\* the terminal callbacks of sendChatCompletionStream
IsTerminal(e) == e.cb \in {"onComplete", "onError"}

\* the ways a call of sendChatCompletionStream ends
StreamOutcomes ==
    {"rejected", "not-ok", "no-body", "finished", "done", "read-rejected", "thrown"}

\* C18: a call of sendChatCompletionStream invokes no terminal callback while
\* it runs, and when it has ended it has invoked exactly one of onComplete and
\* onError, once, as its last callback.
C18_OneTerminalCallback ==
    /\ call.kind = "stream" => SelectSeq(log, IsTerminal) = <<>>
    /\ (app # "App" /\ outcome.how \in StreamOutcomes)
         => /\ Len(SelectSeq(log, IsTerminal)) = 1
            /\ IsTerminal(Last(log))

\* a stream that carried chunks was closed without a finished one: one onComplete
C18_Witness ==
    /\ outcome.how = "done"
    /\ Len(log) = 3
    /\ log[1].cb = "onChunk" /\ log[2].cb = "onChunk"
    /\ log[3].cb = "onComplete"

\* the index of the first finished chunk of w, 0 if none
RECURSIVE FirstFinished(_, _)
FirstFinished(w, i) ==
    IF i > Len(w) THEN 0
    ELSE IF IsChunk(w[i]) /\ w[i].finished THEN i
    ELSE FirstFinished(w, i + 1)

\* C19: no onChunk follows a terminal callback; blocks after the first
\* finished chunk reach no callback; and once the finished chunk has been
\* processed nothing is read and neither the in-progress message nor the
\* conversation list changes until the next submission.
C19_NothingAfterFinished ==
    /\ [](\A i, j \in 1..Len(log) : (i < j /\ IsTerminal(log[i])) => log[j].cb # "onChunk")
    /\ [](FirstFinished(wire, 1) # 0 =>
            /\ outcome.how = "finished"
            /\ Len(SelectSeq(log, LAMBDA e : e.cb = "onChunk"))
                  = Len(ParsedBlocks(SubSeq(wire, 1, FirstFinished(wire, 1))))
            /\ Replies = <<FinishedMessage(Payload(wire[FirstFinished(wire, 1)]),
                                           Replies[1].id.t)>>
            /\ streamingMessage = Null)
    /\ [][(outcome.how = "finished" /\ turns' = turns)
            => /\ messages' = messages
               /\ streamingMessage' = streamingMessage
               /\ log' = log
               /\ wire' = wire]_vars

\* a finished chunk arrived with another chunk after it: two onChunk, one onComplete
C19_Witness ==
    /\ outcome.how = "finished"
    /\ Len(wire) = 3
    /\ FirstFinished(wire, 1) = 2
    /\ IsChunk(wire[3])
    /\ Len(log) = 3
    /\ MessagesView(Replies) = <<<<"assistant", <<"Hi", " there">>>>>>

\* C20: when the loop is Idle there is no in-progress message; an in-progress
\* message exists only while a streaming call is in flight; and every step
\* that ends a streaming call leaves it cleared and the loop Idle.
C20_NoStreamingWhenIdle ==
    /\ [](~isLoading => streamingMessage = Null)
    /\ [](streamingMessage # Null => call.kind = "stream" /\ isLoading)
    /\ [][(call.kind = "stream" /\ call'.kind # "stream")
            => streamingMessage' = Null /\ ~isLoading']_vars

\* the read failed after chunks had filled the in-progress message, and it is gone
C20_Witness ==
    /\ app = "StreamApp"
    /\ outcome.how = "read-rejected"
    /\ Len(ParsedBlocks(wire)) = 2
    /\ streamingMessage = Null
    /\ ~isLoading

\* chunks were parsed in this turn and none of them was finished
PartialContent ==
    /\ \E i \in 1..Len(wire) : IsChunk(wire[i])
    /\ FirstFinished(wire, 1) = 0

\* C14, as stated: once the transport of a streaming turn has been closed
\* after partial content (the body ends, or the read fails), the partial
\* content is discarded: no in-progress message remains and the turn has
\* appended no assistant message.
C14_AbortDiscardsPartial ==
    (outcome.how \in {"done", "read-rejected"} /\ PartialContent)
    => /\ streamingMessage = Null
       /\ \A i \in 1..Len(Replies) : Replies[i].role # "assistant"

\* C16, as stated: with App Reviews selected, a submission of a non-empty URL
\* through the chat input (a submission that does not show the plain text
\* 'Hello' as the user's message) takes the review-analysis path: a POST
\* carrying the URL is issued.
C16_UrlStartsReview ==
    [][(/\ app = "AppContent"
        /\ selectedAgent = "app-reviews"
        /\ turns' = turns + 1
        /\ messages'[Len(messages) + 1].content # <<"Hello">>)
       => /\ requests' = requests + 1
          /\ call'.kind = "reviews"
          /\ call'.pc = "post"
          /\ call'.body.url = StoreUrl]_vars

\* w is progress events followed by one terminal event
ProgressThenTerminal(w) ==
    /\ w # <<>>
    /\ \A i \in 1..(Len(w) - 1) : w[i].event = "progress"
    /\ Last(w).event \in {"complete", "error"}

\* the callbacks such a stream calls for: onProgress per progress event, then
\* onComplete for complete, onError for error
ExpectedCallbacks(w) ==
    [i \in 1..Len(w) |->
        IF w[i].event = "progress" THEN ProgressEvent(w[i].text)
        ELSE IF w[i].event = "error" THEN ErrorEvent("onError", w[i].text)
        ELSE IF "result" \in DOMAIN w[i] THEN CompleteEvent(ExtractedCount(w[i].result))
        ELSE CompleteEvent(-1)]

\* what a review log shows, entry by entry
ReviewLogView(l) ==
    [i \in 1..Len(l) |->
        IF l[i].cb = "onComplete" THEN <<l[i].cb, ToString(l[i].count)>>
        ELSE <<l[i].cb>> \o l[i].text]

RenderedIds ==
    [i \in 1..Len(messages) |-> messages[i].id]
    \o (IF streamingMessage = Null THEN <<>> ELSE <<streamingMessage.id>>)

\* C22: in AppContent the messages rendered together (the conversation list
\* and the streaming message) have pairwise distinct ids.
C22_DistinctIds ==
    app = "AppContent" =>
        \A i, j \in 1..Len(RenderedIds) : i # j => RenderedIds[i] # RenderedIds[j]

LoadingCount(ms) == Len(SelectSeq(ms, IsLoadingId))

\* ms and ns differ at most in the content of messages with id 'loading'
SameButLoadingContent(ms, ns) ==
    /\ Len(ms) = Len(ns)
    /\ \A i \in 1..Len(ms) :
          IF IsLoadingId(ms[i])
          THEN [ns[i] EXCEPT !.content = ms[i].content] = ms[i]
          ELSE ns[i] = ms[i]

\* C24: in the review flow the list holds at most one 'loading' message; a
\* progress event changes only that message's content; and when the analysis
\* completes or fails the 'loading' message is removed, exactly one assistant
\* message is appended, and isProcessing is false again.
C24_LoadingMessage ==
    /\ [](LoadingCount(messages) <= 1)
    /\ [][(call.pc = "open" /\ call'.pc = "open" /\ log' # log)
            => /\ Last(log').cb = "onProgress"
               /\ SameButLoadingContent(messages, messages')
               /\ LoadingCount(messages') = 1]_vars
    /\ [][(call.kind = "reviews" /\ call' = NoCall)
            => /\ LoadingCount(messages) = 1
               /\ Len(messages') = Len(messages)
               /\ SubSeq(messages', 1, Len(messages) - 1) = DropLoading(messages)
               /\ Last(messages').role = "assistant"
               /\ ~IsLoadingId(Last(messages'))
               /\ ~isProcessing']_vars

\* a progress event rewrote the 'loading' message, then the analysis failed:
\* the list is the user's message and the error message
C24_Witness ==
    /\ Len(wire) = 2
    /\ wire[1].event = "progress"
    /\ wire[2].event = "error"
    /\ log[1].cb = "onProgress"
    /\ Len(messages) = 2
    /\ LoadingCount(messages) = 0
    /\ Last(messages).role = "assistant"
    /\ ~isProcessing

\* C25: in analyzeReviews an SSE event whose data is not valid JSON is fatal:
\* the EventSource is closed and onError is called once, and no onProgress
\* or onComplete (and no other callback) is called afterwards.
C25_MalformedEventFatal ==
    /\ [][(call.pc = "open" /\ wire' # wire /\ Last(wire').event = "malformed")
            => /\ call' = NoCall
               /\ outcome'.how = "closed"
               /\ log' = Append(log, ErrorEvent("onError", JsonSyntaxError))]_vars
    /\ [][(wire # <<>> /\ Last(wire).event = "malformed" /\ turns' = turns)
            => log' = log /\ wire' = wire /\ call' = NoCall]_vars

\* a progress event, then an event that is not JSON: onProgress, then onError
C25_Witness ==
    /\ Len(wire) = 2
    /\ wire[1].event = "progress"
    /\ wire[2].event = "malformed"
    /\ Len(log) = 2
    /\ log[1].cb = "onProgress"
    /\ log[2] = ErrorEvent("onError", JsonSyntaxError)
    /\ call = NoCall
    /\ outcome.how = "closed"

\* the ways the start of analyzeReviews fails before there is a stream to open
StartFailures == {"rejected", "not-ok", "no-stream-url"}

\* C26: when the POST of analyzeReviews rejects, answers with a status that
\* is not ok, or answers with a body without stream_url, onError is called
\* exactly once, no EventSource is ever opened, and neither onProgress nor
\* onComplete is called.
C26_StartFailure ==
    /\ [](outcome.how \in StartFailures
            => /\ Len(log) = 1
               /\ log[1].cb = "onError"
               /\ wire = <<>>
               /\ call = NoCall)
    /\ [](call.pc = "open" => Truthy(Get(call.body, "stream_url")))
    /\ [][(outcome'.how \in StartFailures /\ outcome' # outcome)
            => call.pc \in {"post", "json"}]_vars
    /\ [][(outcome.how \in StartFailures /\ turns' = turns)
            => log' = log /\ call' = NoCall]_vars

\* the POST answered ok with a body that has no stream_url: one onError
C26_Witness ==
    /\ outcome.how = "no-stream-url"
    /\ log = <<ErrorEvent("onError", NoStreamUrlError)>>
    /\ wire = <<>>
    /\ call = NoCall
    /\ ~isProcessing

\* ms is a sequence of pairs: a user message, then an assistant or system one
IsPairs(ms) ==
    /\ Len(ms) % 2 = 0
    /\ \A i \in 1..Len(ms) :
          IF i % 2 = 1 THEN ms[i].role = "user"
          ELSE ms[i].role \in {"assistant", "system"}

\* C21: in the chat App, streaming or not, the conversation list of an Idle
\* state is a sequence of pairs, each a user message followed by one
\* assistant or system message; while a turn is in flight it is such a
\* sequence followed by one unanswered user message.
C21_TurnPairs ==
    app \in {"App", "StreamApp"} =>
        IF isLoading
        THEN /\ messages # <<>>
             /\ IsPairs(SubSeq(messages, 1, Len(messages) - 1))
             /\ Last(messages).role = "user"
        ELSE IsPairs(messages)

\* child entries marked disabled, as the sidebar would list the agents that
\* are not available yet
DisabledEntries ==
    {[label |-> l, path |-> p, group |-> FALSE, child |-> TRUE, disabled |-> TRUE] :
        l \in {"Coming soon"}, p \in {"/reviews/app", "/reviews/product", "/reviews/youtube"}}

\* C29: the selected agent starts as 'chat' and after any sequence of sidebar
\* clicks is 'chat' or 'app-reviews'; a click on a disabled entry leaves the
\* selection as it is; so 'product-reviews' and 'youtube-comments' are never
\* selected.
C29_SelectableAgents ==
    /\ selectedAgent = "chat"
    /\ [](selectedAgent \in {"chat", "app-reviews"})
    /\ [](\A item \in DisabledEntries : AfterClick(item, selectedAgent) = selectedAgent)
    /\ [][selectedAgent' # selectedAgent
            => \E item \in SidebarItems :
                  /\ ~item.disabled
                  /\ selectedAgent' = AfterClick(item, selectedAgent)]_vars

\* App Reviews was clicked and a turn submitted with it selected
C29_Witness ==
    /\ app = "AppContent"
    /\ selectedAgent = "app-reviews"
    /\ turns = 1
    /\ messages # <<>>

\* the cleanup function has been invoked in this turn
CleanedUp ==
    \/ call.pc \in {"post-aborted", "json-aborted"}
    \/ outcome.how \in {"cleaned", "aborted"}

\* C23: once the cleanup function analyzeReviews returned has been invoked,
\* whether the POST, the read of its body or the EventSource was pending, no
\* EventSource is opened or left open and none of onProgress, onComplete and
\* onError is called.
C23_CleanupSilences ==
    /\ [](CleanedUp => call.pc # "open")
    /\ [][(CleanedUp /\ turns' = turns) => log' = log]_vars

\* the 'coming soon' text of an agent
ComingSoon(agent) ==
    <<"The ", IF agent = "product-reviews" THEN "Product Reviews" ELSE "YouTube Comments",
      " agent is coming soon. Please try another agent.">>

\* C27: a turn submitted in AppContent while the selected agent is one marked
\* disabled issues no network request, appends after the user's message
\* exactly one system message saying the agent is coming soon, and leaves
\* isLoading false.
C27_DisabledAgentTurn ==
    [][(selectedAgent \in {"product-reviews", "youtube-comments"} /\ turns' = turns + 1)
        => /\ requests' = requests
           /\ inflight' = inflight
           /\ call' = NoCall
           /\ Len(messages') = Len(messages) + 2
           /\ SubSeq(messages', 1, Len(messages)) = messages
           /\ messages'[Len(messages) + 1].role = "user"
           /\ messages'[Len(messages) + 2].role = "system"
           /\ messages'[Len(messages) + 2].content = ComingSoon(selectedAgent)
           /\ ~isLoading'
           /\ streamingMessage' = Null]_vars

\* a turn submitted with Product Reviews selected, its fields as JSON text
C27_Witness ==
    /\ selectedAgent = "product-reviews"
    /\ turns = 1
    /\ Len(messages) = 2
    /\ messages[1].role = "user"
    /\ messages[1].content[1] = "{"
    /\ messages[2] = ChatMessage("system", ComingSoon("product-reviews"), messages[1].id)
    /\ requests = 0
    /\ ~isLoading

\* C28: handleSubmit calls onSendMessage at most once per submit, and only
\* when ChatInput is not disabled and every required field of the current
\* agent holds a string that is not blank; for an agent with one text or
\* textarea input the content passed is the trimmed value, never empty; a
\* submit that is rejected leaves the input values as they are.
C28_SubmitContract ==
    /\ [][turns' # turns
            => /\ turns' = turns + 1
               /\ UserCount(messages') = UserCount(messages) + 1
               /\ ~(isLoading \/ isProcessing)
               /\ \A i \in 1..Len(Inputs(selectedAgent)) :
                     Inputs(selectedAgent)[i].required
                        => Trim(inputValues[Inputs(selectedAgent)[i].id]) # <<>>
               /\ (Len(Inputs(selectedAgent)) = 1
                     => /\ messages'[Len(messages) + 1].content
                              = Trim(inputValues[Inputs(selectedAgent)[1].id])
                        /\ messages'[Len(messages) + 1].content # <<>>)]_vars
    /\ [][(HandleSubmit /\ turns' = turns) => inputValues' = inputValues]_vars

\* the URL typed with a trailing blank was submitted to the chat agent
\* trimmed, and the field is empty again
C28_Witness ==
    /\ selectedAgent = "chat"
    /\ turns = 1
    /\ messages[1].role = "user"
    /\ messages[1].content = StoreUrl
    /\ inputValues["message"] = <<>>

====
